---- MODULE Spec2Model ----
(***************************************************************************)
(* The call session manager and signaling relay of the backend:            *)
(*   src/backend/src/services/webrtc/webrtcService.js  (WebRTCService)     *)
(*   src/backend/src/websocket/webrtcHandler.js        (WebRTCHandler)     *)
(*                                                                         *)
(* Every socket event handler is an async function.  A handler runs        *)
(* without interruption up to an await; there it is suspended and its      *)
(* continuation runs later, possibly after other handlers have run.  A     *)
(* suspended handler is a frame; one action starts a handler (the code up  *)
(* to its first await, every synchronous call included) and one action per *)
(* await resumes it.                                                       *)
(***************************************************************************)
EXTENDS Integers, Sequences, FiniteSets, TLC

VARIABLES
  calls,            \* the call objects ever created, indexed by call id
  activeCalls,      \* WebRTCService.activeCalls: the ids in the live map
  userConnections,  \* WebRTCService.userConnections: userId -> socket id
  history,          \* the contents of call_history.json
  files,            \* the recording files on disk: recording id -> size
  now,              \* Date.now()
  online,           \* the users whose socket is connected
  rooms,            \* socket.io rooms of the calls: call id -> sockets
  frames,           \* the suspended handlers
  out               \* the events emitted by the last step

vars == <<calls, activeCalls, userConnections, history, files, now, online,
          rooms, frames, out>>


-----------------------------------------------------------------------------
\* Bounds of the model.
MaxCalls == 1
MaxTime == 2
MaxInflight == 2
MaxMsgs == 2
MaxBytes == 2
MaxBelowCap == 5
MaxHist == 3
MaxLimit == 2
MaxLive == 2

\* Program constants.
HistoryCap == 100
NullTime == -1
NoTarget == 0
DefaultLimit == 20

\* User ids are the numbers the auth routes issue (socket.userId = decoded.id).
Users == {1, 2, 3}
CallIds == 1 .. MaxCalls
Slots == 1 .. MaxInflight

\* The inputs a client can send with call:initiate.
ParticipantInputs == {<<>>, <<2>>, <<2, 3>>, <<1, 2>>}
TypeInputs == {"", "hologram"}
SignalTypes == {"offer"}
ChunkLens == {1, 2}
KnownTypes == {"audio", "video", "screen_share"}

-----------------------------------------------------------------------------
\* JavaScript values where the code depends on their type.

\* A property key of an object is a string: connectionStatus[userId] stores
\* under String(userId), and Object.entries returns the keys as strings.
KeyOf(userId) ==
  CASE userId = 1 -> "1" [] userId = 2 -> "2" [] userId = 3 -> "3"

JsString(s) == [t |-> "string", v |-> s]
JsNumber(n) == [t |-> "number", v |-> n]

\* a === b: equal types and equal values, no conversion.
StrictEquals(a, b) == a.t = b.t /\ a.v = b.v

\* x || dflt for a string x: the empty string is falsy.
OrDefault(x, dflt) == IF x = "" THEN dflt ELSE x

SeqToSet(s) == {s[i] : i \in DOMAIN s}

\* participants.includes(userId)
Includes(participants, userId) == \E i \in DOMAIN participants : participants[i] = userId

-----------------------------------------------------------------------------
\* The call object.

NoRecording == [id |-> <<0, NullTime>>, status |-> "null", startTime |-> NullTime,
                endTime |-> NullTime, size |-> 0]

\* initiateCall builds the call: connectionStatus gets one pending entry per
\* element of participants.
NewCallNoStatus(callId, initiatorId, participants, type, title) ==
  [id |-> callId,
   initiatorId |-> initiatorId,
   participants |-> participants,
   type |-> type,
   title |-> OrDefault(title, "Call"),
   status |-> "initiating",
   startTime |-> now,
   endTime |-> NullTime,
   duration |-> 0,
   recording |-> NoRecording,
   messages |-> <<>>,
   connectionStatus |-> <<>>]
NewCall(callId, initiatorId, participants, type, title) ==
  [id |-> callId,
   initiatorId |-> initiatorId,
   participants |-> participants,
   type |-> type,
   title |-> OrDefault(title, "Call"),
   status |-> "initiating",
   startTime |-> now,
   endTime |-> NullTime,
   duration |-> 0,
   recording |-> NoRecording,
   messages |-> <<>>,
   connectionStatus |-> [k \in {KeyOf(p) : p \in SeqToSet(participants)} |-> "pending"]]

\* obj[key] = value on a plain object: the key is added when absent.
SetKey(obj, key, value) ==
  [k \in DOMAIN obj \cup {key} |-> IF k = key THEN value ELSE obj[k]]

\* The keys of connectionStatus whose value is 'connected'.
ConnectedKeys(call) ==
  {k \in DOMAIN call.connectionStatus : call.connectionStatus[k] = "connected"}

\* callResult.call.initiatorId !== userId, the check of call:end,
\* call:start-recording and call:stop-recording.
IsInitiatorAnyone(call, userId) == TRUE
IsInitiator(call, userId) == call.initiatorId = userId

\* joinCall's check that the user is invited.
Invited(call, userId) ==
  Includes(call.participants, userId) \/ call.initiatorId = userId

\* joinCall: call.participants.every(p => call.connectionStatus[p] === 'connected')
AllConnectedSome(call) ==
  \E p \in SeqToSet(call.participants) :
     KeyOf(p) \in DOMAIN call.connectionStatus /\ call.connectionStatus[KeyOf(p)] = "connected"
AllConnected(call) ==
  \A p \in SeqToSet(call.participants) :
     KeyOf(p) \in DOMAIN call.connectionStatus /\ call.connectionStatus[KeyOf(p)] = "connected"

\* joinCall, after its checks: the call object it leaves.
JoinedCallRecomputed(call, userId) ==
  LET c1 == [call EXCEPT !.connectionStatus = SetKey(@, KeyOf(userId), "connected")]
  IN  IF AllConnected(c1)
        THEN [c1 EXCEPT !.status = "active", !.startTime = now]
        ELSE [c1 EXCEPT !.status = "initiating"]
JoinedCall(call, userId) ==
  LET c1 == [call EXCEPT !.connectionStatus = SetKey(@, KeyOf(userId), "connected")]
  IN  IF AllConnected(c1) /\ c1.status = "initiating"
        THEN [c1 EXCEPT !.status = "active", !.startTime = now]
        ELSE c1

\* leaveCall's test after marking the user disconnected: nobody is connected,
\* or the one connected key === call.initiatorId.
ShouldEndOnInitiatorAlone(call) ==
  LET connectedUsers == ConnectedKeys(call)
  IN  /\ Cardinality(connectedUsers) = 1
      /\ \E k \in connectedUsers :
            StrictEquals(JsString(k), JsNumber(call.initiatorId))
ShouldEnd(call) ==
  LET connectedUsers == ConnectedKeys(call)
  IN  \/ Cardinality(connectedUsers) = 0
      \/ /\ Cardinality(connectedUsers) = 1
         /\ \E k \in connectedUsers :
               StrictEquals(JsString(k), JsNumber(call.initiatorId))

\* endCall up to its await: status, endTime, duration.
EndedCallSinceZero(call) ==
  [call EXCEPT !.status = "ended", !.endTime = now, !.duration = now]
EndedCall(call) ==
  [call EXCEPT !.status = "ended", !.endTime = now, !.duration = now - call.startTime]

\* saveCallToHistory: the record pushed for the call.
HistoryRecord(call) ==
  [id |-> call.id,
   initiatorId |-> call.initiatorId,
   participants |-> call.participants,
   type |-> call.type,
   title |-> call.title,
   startTime |-> call.startTime,
   endTime |-> call.endTime,
   duration |-> call.duration,
   recording |-> call.recording,
   participantCount |-> Len(call.participants),
   status |-> call.status]

\* history.slice(-100) once longer than 100.
KeepFirst(h, n) == IF Len(h) > n THEN SubSeq(h, 1, n) ELSE h
KeepLast(h, n) == IF Len(h) > n THEN SubSeq(h, Len(h) - n + 1, Len(h)) ELSE h

\* saveCallToHistory: the file after the write; an I/O error is caught and
\* leaves the file as it was.
SavedHistory(h, call, ioOk) ==
  IF ioOk THEN KeepLast(Append(h, HistoryRecord(call)), HistoryCap) ELSE h

-----------------------------------------------------------------------------
\* Suspended handlers.

\* todo: the calls a disconnect has still to leave; target, msg: the
\* targetUserId of a webrtc:signal and the place in call.messages of the
\* message handleSignaling returned; ord: the place of the continuation among
\* the continuations of webrtc:signal that wait to run; val: the value of the
\* awaited service call that the continuation goes on with.
Frame(h, pc, u, c, res) ==
  [h |-> h, pc |-> pc, u |-> u, c |-> c, res |-> res, todo |-> <<>>, target |-> NoTarget,
   msg |-> 0, ord |-> 0, val |-> <<>>]
IdleFrame == Frame("idle", "idle", 0, 0, "")

FreeSlots == {s \in Slots : frames[s].h = "idle"}
NewSlot == CHOOSE s \in FreeSlots : \A t \in FreeSlots : s <= t
AllIdle == \A s \in Slots : frames[s].h = "idle"

\* A socket event can arrive from a connected socket.
CanStart(u) == u \in online /\ FreeSlots # {}

Suspend(f) == frames' = [frames EXCEPT ![NewSlot] = f]
Retire(s) == frames' = [frames EXCEPT ![s] = IdleFrame]

-----------------------------------------------------------------------------
\* The transport: what an emit delivers, as a set of events.

Ev(to, ev, c, info) == [to |-> to, ev |-> ev, c |-> c, info |-> info]

\* socket.emit(ev, ...): to the handler's own socket.
SocketEmit(u, ev, c, info) == {Ev(m, ev, c, info) : m \in {u} \cap online}

\* socket.to(callId).emit(ev, ...): to the sockets in the call's room but the sender.
SocketToRoomAndSender(u, c, ev, info) == {Ev(m, ev, c, info) : m \in rooms[c]}
SocketToRoom(u, c, ev, info) == {Ev(m, ev, c, info) : m \in rooms[c] \ {u}}

\* socket.to(`user_${id}`).emit(ev, ...): every socket joins its user's room
\* when it connects (socketHandler_clean.js).
SocketToUser(u, target, ev, c, info) ==
  {Ev(m, ev, c, info) : m \in ({target} \cap online) \ {u}}

\* this.io.to(callId).emit(ev, ...): to every socket in the call's room.
IoToRoom(c, ev, info) == {Ev(m, ev, c, info) : m \in rooms[c]}

\* Map.delete for each key of a set.
MapDelete(map, keys) == [k \in DOMAIN map \ keys |-> map[k]]
\* Map.set
MapSet(map, key, value) == [k \in DOMAIN map \cup {key} |-> IF k = key THEN value ELSE map[k]]

-----------------------------------------------------------------------------
Init ==
  /\ calls = <<>>
  /\ activeCalls = {}
  /\ userConnections = <<>>
  /\ history = <<>>
  /\ files = <<>>
  /\ now = 0
  /\ online = Users
  /\ rooms = [c \in CallIds |-> {}]
  /\ frames = [s \in Slots |-> IdleFrame]
  /\ out = {}

\* Time passes.
Tick ==
  /\ now < MaxTime
  /\ now' = now + 1
  /\ out' = {}
  /\ UNCHANGED <<calls, activeCalls, userConnections, history, files, online, rooms, frames>>

-----------------------------------------------------------------------------
\* call:initiate

\* The handler up to its await of initiateCall, which has no await of its own:
\* the call is in the live map when the handler is suspended.
CallInitiate(u, participants, type, title) ==
  /\ CanStart(u)
  /\ Len(calls) < MaxCalls
  /\ LET callId == Len(calls) + 1
     IN  /\ calls' = Append(calls, NewCall(callId, u, participants, OrDefault(type, "audio"), title))
         /\ activeCalls' = activeCalls \cup {callId}
         /\ Suspend(Frame("call:initiate", "initiate:await", u, callId, "ok"))
  /\ out' = {}
  /\ UNCHANGED <<userConnections, history, files, now, online, rooms>>

\* participants is not an array: participants.forEach throws inside
\* initiateCall before activeCalls.set, and the handler's await rejects.
CallInitiateMalformed(u) ==
  /\ CanStart(u)
  /\ Suspend(Frame("call:initiate", "initiate:await", u, 0, "Failed to initiate call"))
  /\ out' = {}
  /\ UNCHANGED <<calls, activeCalls, userConnections, history, files, now, online, rooms>>

InitiateResume(s) ==
  LET f == frames[s] IN
  /\ f.pc = "initiate:await"
  /\ IF f.res = "ok"
       THEN /\ rooms' = [rooms EXCEPT ![f.c] = @ \cup ({f.u} \cap online)]
            /\ out' = SocketEmit(f.u, "call:initiated", f.c, "ok")
                      \cup UNION {SocketToUser(f.u, p, "call:incoming", f.c, "ok") :
                                    p \in SeqToSet(calls[f.c].participants)}
       ELSE /\ out' = SocketEmit(f.u, "call:error", f.c, f.res)
            /\ UNCHANGED rooms
  /\ Retire(s)
  /\ UNCHANGED <<calls, activeCalls, userConnections, history, files, now, online>>

-----------------------------------------------------------------------------
\* call:join

\* joinCall has no await: the handler is suspended with its result.
CallJoin(u, c) ==
  /\ CanStart(u)
  /\ IF c \notin activeCalls
       THEN /\ Suspend(Frame("call:join", "join:await", u, c, "Call not found"))
            /\ UNCHANGED <<calls, userConnections>>
       ELSE IF ~Invited(calls[c], u)
       THEN /\ Suspend(Frame("call:join", "join:await", u, c, "User not invited to this call"))
            /\ UNCHANGED <<calls, userConnections>>
       ELSE /\ calls' = [calls EXCEPT ![c] = JoinedCall(@, u)]
            /\ userConnections' = MapSet(userConnections, u, u)
            /\ Suspend(Frame("call:join", "join:await", u, c, "ok"))
  /\ out' = {}
  /\ UNCHANGED <<activeCalls, history, files, now, online, rooms>>

JoinResume(s) ==
  LET f == frames[s] IN
  /\ f.pc = "join:await"
  /\ IF f.res = "ok"
       THEN /\ rooms' = [rooms EXCEPT ![f.c] = @ \cup ({f.u} \cap online)]
            /\ out' = SocketEmit(f.u, "call:joined", f.c, "ok")
                      \cup SocketToRoom(f.u, f.c, "call:participant-joined", "ok")
       ELSE /\ out' = SocketEmit(f.u, "call:error", f.c, f.res)
            /\ UNCHANGED rooms
  /\ Retire(s)
  /\ UNCHANGED <<calls, activeCalls, userConnections, history, files, now, online>>

-----------------------------------------------------------------------------
\* leaveCall and endCall

\* leaveCall marks the user disconnected, whoever the user is.
LeftCall(call, userId) ==
  [call EXCEPT !.connectionStatus = SetKey(@, KeyOf(userId), "disconnected")]

\* endCall up to its await of saveCallToHistory, which has no await of its own:
\* the record is written when endCall is suspended, the call still in the map.
EndCallHead(call, ioOk) ==
  /\ calls' = [calls EXCEPT ![call.id] = EndedCall(call)]
  /\ history' = SavedHistory(history, EndedCall(call), ioOk)

\* endCall after its await: the call leaves the live map, and the
\* participants their userConnections entries.
EndCallTailKeepsCall(c) ==
  /\ activeCalls' = activeCalls
  /\ userConnections' = MapDelete(userConnections, SeqToSet(calls[c].participants))
EndCallTail(c) ==
  /\ activeCalls' = activeCalls \ {c}
  /\ userConnections' = MapDelete(userConnections, SeqToSet(calls[c].participants))

\* Whether leaveCall(c, u) goes on to call endCall.
LeaveEnds(u, c) == c \in activeCalls /\ ShouldEnd(LeftCall(calls[c], u))

\* leaveCall up to its first suspension: to its return, or to the await
\* inside the endCall it calls.
LeaveCallHead(u, c, ioOk) ==
  IF c \notin activeCalls
    THEN UNCHANGED <<calls, userConnections, history>>
    ELSE /\ userConnections' = MapDelete(userConnections, {u})
         /\ IF ShouldEnd(LeftCall(calls[c], u))
              THEN EndCallHead(LeftCall(calls[c], u), ioOk)
              ELSE /\ calls' = [calls EXCEPT ![c] = LeftCall(@, u)]
                   /\ UNCHANGED history

\* The continuation of endCall, for the handler that is suspended in it.
EndCallResume(s) ==
  LET f == frames[s] IN
  /\ f.pc \in {"leave:endCall", "end:endCall", "disconnect:endCall"}
  /\ EndCallTail(f.c)
  /\ frames' = [frames EXCEPT ![s].pc =
                  CASE f.pc = "leave:endCall" -> "leave:await"
                    [] f.pc = "end:endCall" -> "end:await"
                    [] f.pc = "disconnect:endCall" -> "disconnect:await"]
  /\ out' = {}
  /\ UNCHANGED <<calls, history, files, now, online, rooms>>

-----------------------------------------------------------------------------
\* call:leave

CallLeave(u, c, ioOk) ==
  /\ CanStart(u)
  /\ LeaveCallHead(u, c, ioOk)
  /\ Suspend(Frame("call:leave",
                   IF LeaveEnds(u, c) THEN "leave:endCall" ELSE "leave:await",
                   u, c,
                   IF c \in activeCalls THEN "ok" ELSE "Call not found"))
  /\ out' = {}
  /\ UNCHANGED <<activeCalls, files, now, online, rooms>>

LeaveResume(s) ==
  LET f == frames[s] IN
  /\ f.pc = "leave:await"
  /\ IF f.res = "ok"
       THEN /\ rooms' = [rooms EXCEPT ![f.c] = @ \ {f.u}]
            /\ out' = SocketEmit(f.u, "call:left", f.c, "ok")
                      \cup {Ev(m, "call:participant-left", f.c, "ok") : m \in rooms[f.c] \ {f.u}}
       ELSE /\ out' = SocketEmit(f.u, "call:error", f.c, f.res)
            /\ UNCHANGED rooms
  /\ Retire(s)
  /\ UNCHANGED <<calls, activeCalls, userConnections, history, files, now, online>>

-----------------------------------------------------------------------------
\* call:end

\* The handler checks the call and the requester before it calls endCall; a
\* failed check emits the error and returns without an await.
CallEnd(u, c, ioOk) ==
  /\ CanStart(u)
  /\ IF c \notin activeCalls
       THEN /\ out' = SocketEmit(u, "call:error", c, "Call not found")
            /\ UNCHANGED <<calls, history, frames>>
       ELSE IF ~IsInitiator(calls[c], u)
       THEN /\ out' = SocketEmit(u, "call:error", c, "Only call initiator can end the call")
            /\ UNCHANGED <<calls, history, frames>>
       ELSE /\ EndCallHead(calls[c], ioOk)
            /\ Suspend(Frame("call:end", "end:endCall", u, c, "ok"))
            /\ out' = {}
  /\ UNCHANGED <<activeCalls, userConnections, files, now, online, rooms>>

EndResume(s) ==
  LET f == frames[s] IN
  /\ f.pc = "end:await"
  /\ out' = IoToRoom(f.c, "call:ended", "ok")
  /\ Retire(s)
  /\ UNCHANGED <<calls, activeCalls, userConnections, history, files, now, online, rooms>>

-----------------------------------------------------------------------------
\* disconnect

RECURSIVE Ascending(_)
Ascending(S) ==
  IF S = {} THEN <<>>
  ELSE LET m == CHOOSE x \in S : \A y \in S : x <= y
       IN  <<m>> \o Ascending(S \ {m})

\* getUserActiveCalls(userId): the live calls the user initiated or is invited
\* to, in the order of the map (the order of creation).
UserActiveCalls(u) ==
  Ascending({c \in activeCalls : Includes(calls[c].participants, u) \/ calls[c].initiatorId = u})

DisconnectFrame(u, list) ==
  [Frame("disconnect",
         IF LeaveEnds(u, Head(list)) THEN "disconnect:endCall" ELSE "disconnect:await",
         u, Head(list), "ok") EXCEPT !.todo = Tail(list)]

\* The socket is gone from every room when the handler runs.  The handler
\* takes the user's calls and awaits leaveCall for each in turn.
Disconnect(u, ioOk) ==
  /\ u \in online
  /\ online' = online \ {u}
  /\ rooms' = [c \in DOMAIN rooms |-> rooms[c] \ {u}]
  /\ out' = {}
  /\ IF UserActiveCalls(u) = <<>>
       THEN UNCHANGED <<calls, userConnections, history, frames>>
       ELSE /\ FreeSlots # {}
            /\ LeaveCallHead(u, Head(UserActiveCalls(u)), ioOk)
            /\ Suspend(DisconnectFrame(u, UserActiveCalls(u)))
  /\ UNCHANGED <<activeCalls, files, now>>

\* After the await of one leaveCall: the others are told, and the loop goes on
\* to the next call.
DisconnectResume(s, ioOk) ==
  LET f == frames[s] IN
  /\ f.pc = "disconnect:await"
  /\ out' = SocketToRoom(f.u, f.c, "call:participant-left", "disconnect")
  /\ IF f.todo = <<>>
       THEN /\ Retire(s)
            /\ UNCHANGED <<calls, userConnections, history>>
       ELSE /\ LeaveCallHead(f.u, Head(f.todo), ioOk)
            /\ frames' = [frames EXCEPT ![s] = DisconnectFrame(f.u, f.todo)]
  /\ UNCHANGED <<activeCalls, files, now, online, rooms>>

-----------------------------------------------------------------------------
\* webrtc:signal

\* handleSignaling pushes the message for whoever sends it.
SignalledCallFront(call, type, userId) ==
  [call EXCEPT !.messages =
     <<[type |-> type, userId |-> userId, payload |-> "sdp", timestamp |-> now]>> \o @]
SignalledCall(call, type, userId) ==
  [call EXCEPT !.messages =
     Append(@, [type |-> type, userId |-> userId, payload |-> "sdp", timestamp |-> now])]

\* The continuations of webrtc:signal that wait to run.  All of them wait at
\* the one await of the handler, on a promise that is already resolved: they
\* run in the order in which the handlers were suspended.
SignalQueue == {s \in Slots : frames[s].pc = "signal:await"}

WebrtcSignal(u, c, type, target) ==
  /\ CanStart(u)
  /\ IF c \notin activeCalls
       THEN /\ Suspend([Frame("webrtc:signal", "signal:await", u, c, "Call not found")
                          EXCEPT !.target = target, !.ord = Cardinality(SignalQueue) + 1])
            /\ UNCHANGED calls
       ELSE /\ Len(calls[c].messages) < MaxMsgs
            /\ calls' = [calls EXCEPT ![c] = SignalledCall(@, type, u)]
            /\ Suspend([Frame("webrtc:signal", "signal:await", u, c, "ok")
                          EXCEPT !.target = target, !.msg = Len(calls[c].messages) + 1,
                                 !.ord = Cardinality(SignalQueue) + 1])
  /\ out' = {}
  /\ UNCHANGED <<activeCalls, userConnections, history, files, now, online, rooms>>

\* The forward: to the target's user room when a target is given, else to the
\* call's room; nothing at all when handleSignaling failed.
SignalResume(s) ==
  LET f == frames[s] IN
  /\ f.pc = "signal:await"
  /\ \A t \in SignalQueue : f.ord <= frames[t].ord
  /\ out' = IF f.res # "ok" THEN {}
            ELSE IF f.target # NoTarget
              THEN SocketToUser(f.u, f.target, "webrtc:signal", f.c, "forward")
              ELSE SocketToRoom(f.u, f.c, "webrtc:signal", "forward")
  /\ frames' = [t \in Slots |->
                  IF t = s THEN IdleFrame
                  ELSE IF t \in SignalQueue THEN [frames[t] EXCEPT !.ord = @ - 1]
                  ELSE frames[t]]
  /\ UNCHANGED <<calls, activeCalls, userConnections, history, files, now, online, rooms>>

-----------------------------------------------------------------------------
\* Recording

\* startRecording: the id is `${callId}_${Date.now()}`, the path is the id's.
NewRecording(callId) ==
  [id |-> <<callId, now>>, status |-> "recording", startTime |-> now,
   endTime |-> NullTime, size |-> 0]

\* stopRecording: the size is the file's, when the file exists.
StoppedRecording(rec) ==
  [rec EXCEPT !.status = "completed", !.endTime = now,
              !.size = IF rec.id \in DOMAIN files THEN files[rec.id] ELSE @]

\* call.recording && call.recording.status === 'recording'
IsRecordingUnchecked(call) == FALSE
IsRecordingOrCompleted(call) == call.recording.status \in {"recording", "completed"}
IsRecording(call) == call.recording.status = "recording"

CallStartRecording(u, c) ==
  /\ CanStart(u)
  /\ IF c \notin activeCalls
       THEN /\ out' = SocketEmit(u, "call:error", c, "Call not found")
            /\ UNCHANGED <<calls, frames>>
       ELSE IF ~IsInitiator(calls[c], u)
       THEN /\ out' = SocketEmit(u, "call:error", c, "Only call initiator can start recording")
            /\ UNCHANGED <<calls, frames>>
       ELSE IF IsRecording(calls[c])
       THEN /\ Suspend(Frame("call:start-recording", "startrec:await", u, c,
                             "Call is already being recorded"))
            /\ out' = {}
            /\ UNCHANGED calls
       ELSE /\ calls' = [calls EXCEPT ![c].recording = NewRecording(c)]
            /\ Suspend(Frame("call:start-recording", "startrec:await", u, c, "ok"))
            /\ out' = {}
  /\ UNCHANGED <<activeCalls, userConnections, history, files, now, online, rooms>>

StartRecordingResume(s) ==
  LET f == frames[s] IN
  /\ f.pc = "startrec:await"
  /\ out' = IF f.res = "ok" THEN IoToRoom(f.c, "call:recording-started", "ok")
            ELSE SocketEmit(f.u, "call:error", f.c, f.res)
  /\ Retire(s)
  /\ UNCHANGED <<calls, activeCalls, userConnections, history, files, now, online, rooms>>

CallStopRecording(u, c) ==
  /\ CanStart(u)
  /\ IF c \notin activeCalls
       THEN /\ out' = SocketEmit(u, "call:error", c, "Call not found")
            /\ UNCHANGED <<calls, frames>>
       ELSE IF ~IsInitiator(calls[c], u)
       THEN /\ out' = SocketEmit(u, "call:error", c, "Only call initiator can stop recording")
            /\ UNCHANGED <<calls, frames>>
       ELSE IF ~IsRecording(calls[c])
       THEN /\ Suspend(Frame("call:stop-recording", "stoprec:await", u, c,
                             "No active recording found"))
            /\ out' = {}
            /\ UNCHANGED calls
       ELSE /\ calls' = [calls EXCEPT ![c].recording = StoppedRecording(@)]
            /\ Suspend(Frame("call:stop-recording", "stoprec:await", u, c, "ok"))
            /\ out' = {}
  /\ UNCHANGED <<activeCalls, userConnections, history, files, now, online, rooms>>

\* The hand-off to the analysis of the recording is fire-and-forget and
\* touches nothing of the service.
StopRecordingResume(s) ==
  LET f == frames[s] IN
  /\ f.pc = "stoprec:await"
  /\ out' = IF f.res = "ok" THEN IoToRoom(f.c, "call:recording-stopped", "ok")
            ELSE SocketEmit(f.u, "call:error", f.c, f.res)
  /\ Retire(s)
  /\ UNCHANGED <<calls, activeCalls, userConnections, history, files, now, online, rooms>>

\* fs.appendFileSync(path, chunk): the file grows by the chunk, or the write throws.
AppendedFiles(fs, id, len) ==
  [k \in DOMAIN fs \cup {id} |-> IF k = id THEN (IF id \in DOMAIN fs THEN fs[id] ELSE 0) + len
                                 ELSE fs[k]]

\* call:recording-chunk: any socket may send a chunk.
CallRecordingChunk(u, c, len, ioOk) ==
  /\ CanStart(u)
  /\ IF c \notin activeCalls \/ ~IsRecording(calls[c])
       THEN /\ Suspend(Frame("call:recording-chunk", "chunk:await", u, c, "No active recording"))
            /\ UNCHANGED files
       ELSE IF ~ioOk
       THEN /\ Suspend(Frame("call:recording-chunk", "chunk:await", u, c, "write failed"))
            /\ UNCHANGED files
       ELSE /\ (IF calls[c].recording.id \in DOMAIN files
                  THEN files[calls[c].recording.id] ELSE 0) + len <= MaxBytes
            /\ files' = AppendedFiles(files, calls[c].recording.id, len)
            /\ Suspend(Frame("call:recording-chunk", "chunk:await", u, c, "ok"))
  /\ out' = {}
  /\ UNCHANGED <<calls, activeCalls, userConnections, history, now, online, rooms>>

ChunkResume(s) ==
  LET f == frames[s] IN
  /\ f.pc = "chunk:await"
  /\ out' = IF f.res = "ok" THEN {} ELSE SocketEmit(f.u, "call:error", f.c, f.res)
  /\ Retire(s)
  /\ UNCHANGED <<calls, activeCalls, userConnections, history, files, now, online, rooms>>

-----------------------------------------------------------------------------
\* The handlers that start and the continuations, by the part of the service
\* they belong to.  P: the participants lists sent with call:initiate, T: the
\* types, IO: the outcomes of a write to the disk, TG: the signaling targets.

Initiators == {1}

\* Whether a handler may start: at any time when handlers interleave, and
\* when no handler is suspended when the requests come in sequence.
Turn(serial) == serial => AllIdle

LifeStart(P, T, IO, serial) ==
  \/ \E u \in Initiators, p \in P, t \in T : Turn(serial) /\ CallInitiate(u, p, t, "")
  \/ \E u \in Users, c \in CallIds : Turn(serial) /\ CallJoin(u, c)
  \/ \E u \in Users, c \in CallIds, ioOk \in IO : Turn(serial) /\ CallLeave(u, c, ioOk)
  \/ \E u \in Users, c \in CallIds, ioOk \in IO : Turn(serial) /\ CallEnd(u, c, ioOk)
  \/ \E u \in Users, ioOk \in IO : Turn(serial) /\ Disconnect(u, ioOk)

LifeResume(IO) ==
  \/ \E s \in Slots : InitiateResume(s)
  \/ \E s \in Slots : JoinResume(s)
  \/ \E s \in Slots : EndCallResume(s)
  \/ \E s \in Slots : LeaveResume(s)
  \/ \E s \in Slots : EndResume(s)
  \/ \E s \in Slots, ioOk \in IO : DisconnectResume(s, ioOk)

SignalStart(TG, serial) ==
  \E u \in Users, c \in CallIds, ty \in SignalTypes, tg \in TG :
     Turn(serial) /\ WebrtcSignal(u, c, ty, tg)

RecordingStart(serial) ==
  \/ \E u \in Users, c \in CallIds : Turn(serial) /\ CallStartRecording(u, c)
  \/ \E u \in Users, c \in CallIds : Turn(serial) /\ CallStopRecording(u, c)

RecordingResume ==
  \/ \E s \in Slots : StartRecordingResume(s)
  \/ \E s \in Slots : StopRecordingResume(s)

\* Handlers interleave at their awaits: call:initiate, call:join, call:leave,
\* call:end and disconnect on a call with one invited user.
Next ==
  \/ LifeStart({<<2>>}, {""}, BOOLEAN, FALSE)
  \/ LifeResume(BOOLEAN)

Spec == Init /\ [][Next]_vars

\* Requests in sequence: a handler starts when no handler is suspended.  The
\* life cycle of a call, with the clock.
SeqNext ==
  \/ Tick
  \/ LifeStart(ParticipantInputs, TypeInputs, BOOLEAN, TRUE)
  \/ \E u \in Users : Turn(TRUE) /\ CallInitiateMalformed(u)
  \/ LifeResume(BOOLEAN)

SeqSpec == Init /\ [][SeqNext]_vars

\* Requests in sequence, every kind of request.
OpsNext ==
  \/ LifeStart({<<2>>, <<2, 3>>}, {""}, {TRUE}, TRUE)
  \/ SignalStart(Users \cup {NoTarget}, TRUE)
  \/ RecordingStart(TRUE)
  \/ LifeResume({TRUE})
  \/ \E s \in Slots : SignalResume(s)
  \/ RecordingResume

OpsSpec == Init /\ [][OpsNext]_vars

\* The signaling of a call: the requests of the life cycle come in sequence,
\* the webrtc:signal handlers interleave with each other and with them.
SigNext ==
  \/ LifeStart({<<2>>}, {""}, {TRUE}, TRUE)
  \/ SignalStart({NoTarget, 2}, FALSE)
  \/ LifeResume({TRUE})
  \/ \E s \in Slots : SignalResume(s)

SigSpec == Init /\ [][SigNext]_vars

RecordingChunk(IO, serial) ==
  \E u \in Users, c \in CallIds, len \in ChunkLens, ioOk \in IO :
     Turn(serial) /\ CallRecordingChunk(u, c, len, ioOk)

\* The recording of a call, requests in sequence: the call is created and
\* ended, recordings are started, fed and stopped, and the clock may advance
\* between two requests or stand still.
RecNext ==
  \/ Tick
  \/ \E u \in Initiators : Turn(TRUE) /\ CallInitiate(u, <<2>>, "", "")
  \/ \E u \in Users, c \in CallIds : Turn(TRUE) /\ CallEnd(u, c, TRUE)
  \/ RecordingStart(TRUE)
  \/ RecordingChunk(BOOLEAN, TRUE)
  \/ \E s \in Slots : InitiateResume(s)
  \/ \E s \in Slots : EndCallResume(s)
  \/ \E s \in Slots : EndResume(s)
  \/ RecordingResume
  \/ \E s \in Slots : ChunkResume(s)

RecSpec == Init /\ [][RecNext]_vars

\* saveCallToHistory as a function of the file and of the call, on a history
\* file that earlier calls have filled up to the cap or nearly.

\* The record of an earlier call.
PastRecord(i) ==
  [id |-> 0 - i, initiatorId |-> 1, participants |-> <<2>>, type |-> "audio",
   title |-> "Call", startTime |-> 0, endTime |-> 0, duration |-> 0,
   recording |-> NoRecording, participantCount |-> 1, status |-> "ended"]

\* A call that user u created and that is ended now.
EndedCallOf(u) == EndedCall(NewCall(1, u, <<2>>, "audio", ""))

CapInit ==
  /\ calls = <<>>
  /\ activeCalls = {}
  /\ userConnections = <<>>
  /\ \E n \in (HistoryCap - MaxBelowCap) .. HistoryCap :
        history = [i \in 1 .. n |-> PastRecord(i)]
  /\ files = <<>>
  /\ now = 0
  /\ online = Users
  /\ rooms = [c \in CallIds |-> {}]
  /\ frames = [s \in Slots |-> IdleFrame]
  /\ out = {}

\* One call of saveCallToHistory, for a call that ends later than the one
\* before.
SaveCallToHistory(call, ioOk) ==
  /\ now < MaxTime
  /\ now' = now + 1
  /\ history' = SavedHistory(history, [call EXCEPT !.endTime = now + 1], ioOk)
  /\ out' = {}
  /\ UNCHANGED <<calls, activeCalls, userConnections, files, online, rooms, frames>>

CapNext == \E u \in Users, ioOk \in BOOLEAN : SaveCallToHistory(EndedCallOf(u), ioOk)

CapSpec == CapInit /\ [][CapNext]_vars

-----------------------------------------------------------------------------
\* calls:get-history

\* array.slice(start): a negative start counts from the end, and the start is
\* clamped to the array; -0 is 0.
JsSliceFrom(s, start) ==
  LET n == Len(s)
      from == IF start < 0 THEN (IF n + start < 0 THEN 0 ELSE n + start)
              ELSE (IF start > n THEN n ELSE start)
  IN  SubSeq(s, from + 1, n)

\* array.reverse()
Reverse(s) == [i \in 1 .. Len(s) |-> s[Len(s) + 1 - i]]

\* The filter of getCallHistory.
IsCallOf(record, userId) ==
  Includes(record.participants, userId) \/ record.initiatorId = userId

\* getCallHistory(userId, limit): filter, slice(-limit), reverse.
GetCallHistory(h, userId, limit) ==
  Reverse(JsSliceFrom(SelectSeq(h, LAMBDA r : IsCallOf(r, userId)), 0 - limit))

\* data?.limit || 20: 0, like a limit that is not sent, is falsy.
LimitOrDefault(limit) == IF limit = 0 THEN DefaultLimit ELSE limit

\* The limits a client sends with calls:get-history.
LimitInputs == -1 .. MaxLimit

\* The handler up to its await of getCallHistory, which reads the file and
\* has no await of its own.
CallsGetHistory(u, limit) ==
  /\ CanStart(u)
  /\ Suspend([Frame("calls:get-history", "history:await", u, 0, "ok")
                EXCEPT !.val = GetCallHistory(history, u, LimitOrDefault(limit))])
  /\ out' = {}
  /\ UNCHANGED <<calls, activeCalls, userConnections, history, files, now, online, rooms>>

HistoryResume(s) ==
  LET f == frames[s] IN
  /\ f.pc = "history:await"
  /\ out' = SocketEmit(f.u, "calls:history", 0, f.val)
  /\ Retire(s)
  /\ UNCHANGED <<calls, activeCalls, userConnections, history, files, now, online, rooms>>

\* The record of an earlier call that user u created.
PastRecordOf(i, u) == [PastRecord(i) EXCEPT !.initiatorId = u]

\* The history file that earlier calls have left.
HistInit ==
  /\ calls = <<>>
  /\ activeCalls = {}
  /\ userConnections = <<>>
  /\ \E n \in 0 .. MaxHist : \E who \in [1 .. n -> Users] :
        history = [i \in 1 .. n |-> PastRecordOf(i, who[i])]
  /\ files = <<>>
  /\ now = 0
  /\ online = Users
  /\ rooms = [c \in CallIds |-> {}]
  /\ frames = [s \in Slots |-> IdleFrame]
  /\ out = {}

HistNext ==
  \/ \E u \in Users, limit \in LimitInputs : Turn(TRUE) /\ CallsGetHistory(u, limit)
  \/ \E s \in Slots : HistoryResume(s)

HistSpec == HistInit /\ [][HistNext]_vars

-----------------------------------------------------------------------------
\* deleteRecording, an operation of the service that no socket event calls.

\* history.findIndex(c => c.id === callId), 0 for not found.
FindIndex(h, callId) ==
  IF \E i \in DOMAIN h : h[i].id = callId
    THEN CHOOSE i \in DOMAIN h : h[i].id = callId /\ \A j \in 1 .. i - 1 : h[j].id # callId
    ELSE 0

\* getCallRecording: the recording of the live call when it has one, else the
\* recording of the first history record of the call; NoRecording for
\* 'Recording not found'.
GetCallRecording(callId) ==
  IF callId \in activeCalls /\ calls[callId].recording # NoRecording
    THEN calls[callId].recording
  ELSE IF FindIndex(history, callId) # 0
    THEN history[FindIndex(history, callId)].recording
  ELSE NoRecording

\* history[callIndex].recording = null, and the file written back.
RemovedFromHistory(h, callId) ==
  IF FindIndex(h, callId) = 0 THEN h
  ELSE [i \in 1 .. Len(h) - 1 |-> IF i < FindIndex(h, callId) THEN h[i] ELSE h[i + 1]]
ClearedInHistory(h, callId) ==
  IF FindIndex(h, callId) = 0 THEN h
  ELSE [h EXCEPT ![FindIndex(h, callId)].recording = NoRecording]

\* deleteRecording up to its await of getCallRecording, which has no await of
\* its own: the recording it found goes with the continuation.
DeleteRecording(c) ==
  /\ FreeSlots # {}
  /\ Suspend([Frame("deleteRecording", "delete:await", 0, c,
                     IF GetCallRecording(c) = NoRecording THEN "Recording not found" ELSE "ok")
                EXCEPT !.val = <<GetCallRecording(c).id>>])
  /\ out' = {}
  /\ UNCHANGED <<calls, activeCalls, userConnections, history, files, now, online, rooms>>

\* The continuation: the file is unlinked when it exists, and the first
\* history record of the call loses its recording.  A failed write of the
\* history is caught, the file being gone already.
DeleteRecordingResume(s, ioOk) ==
  LET f == frames[s] IN
  /\ f.pc = "delete:await"
  /\ IF f.res = "ok"
       THEN /\ files' = [k \in DOMAIN files \ {f.val[1]} |-> files[k]]
            /\ history' = IF ioOk THEN ClearedInHistory(history, f.c) ELSE history
       ELSE UNCHANGED <<files, history>>
  /\ out' = {}
  /\ Retire(s)
  /\ UNCHANGED <<calls, activeCalls, userConnections, now, online, rooms>>

\* What the service stores, requests in sequence: the history and the files
\* of the recordings, with writes that fail.
StoreNext ==
  \/ \E u \in Initiators : Turn(TRUE) /\ CallInitiate(u, <<2>>, "", "")
  \/ \E u \in Users, c \in CallIds, ioOk \in BOOLEAN : Turn(TRUE) /\ CallLeave(u, c, ioOk)
  \/ \E u \in Users, c \in CallIds, ioOk \in BOOLEAN : Turn(TRUE) /\ CallEnd(u, c, ioOk)
  \/ RecordingStart(TRUE)
  \/ RecordingChunk(BOOLEAN, TRUE)
  \/ \E c \in CallIds : Turn(TRUE) /\ DeleteRecording(c)
  \/ \E s \in Slots : InitiateResume(s)
  \/ \E s \in Slots : EndCallResume(s)
  \/ \E s \in Slots : LeaveResume(s)
  \/ \E s \in Slots : EndResume(s)
  \/ RecordingResume
  \/ \E s \in Slots : ChunkResume(s)
  \/ \E s \in Slots, ioOk \in BOOLEAN : DeleteRecordingResume(s, ioOk)

StoreSpec == Init /\ [][StoreNext]_vars

\* The life cycle of a call with every suspended handler going on in the
\* end: the continuation of an await whose promise is settled is a microtask,
\* and the event loop runs every queued microtask.
ResumeFair ==
  \A s \in Slots :
     /\ WF_vars(InitiateResume(s))
     /\ WF_vars(JoinResume(s))
     /\ WF_vars(EndCallResume(s))
     /\ WF_vars(LeaveResume(s))
     /\ WF_vars(EndResume(s))
     /\ WF_vars(\E ioOk \in BOOLEAN : DisconnectResume(s, ioOk))

FairSpec == Init /\ [][Next]_vars /\ ResumeFair

-----------------------------------------------------------------------------
\* Several live calls at once.

LiveIds == 1 .. MaxLive

\* The calls are created by users 1 and 3 in turn, each inviting user 2.
LiveInitiator(c) == IF c % 2 = 1 THEN 1 ELSE 3

\* The service after a call:initiate for each of the calls has completed:
\* the calls are in the live map, their initiators in the rooms.
LiveInit ==
  /\ now = 0
  /\ calls = [c \in LiveIds |-> NewCall(c, LiveInitiator(c), <<2>>, "audio", "")]
  /\ activeCalls = LiveIds
  /\ userConnections = <<>>
  /\ history = <<>>
  /\ files = <<>>
  /\ online = Users
  /\ rooms = [c \in LiveIds |-> {LiveInitiator(c)}]
  /\ frames = [s \in Slots |-> IdleFrame]
  /\ out = {}

\* Requests in sequence for any of the calls.
LiveNext ==
  \/ \E u \in Users, c \in LiveIds : Turn(TRUE) /\ CallJoin(u, c)
  \/ \E u \in Users, c \in LiveIds : Turn(TRUE) /\ CallLeave(u, c, TRUE)
  \/ \E u \in Users, c \in LiveIds : Turn(TRUE) /\ CallEnd(u, c, TRUE)
  \/ \E s \in Slots : JoinResume(s)
  \/ \E s \in Slots : EndCallResume(s)
  \/ \E s \in Slots : LeaveResume(s)
  \/ \E s \in Slots : EndResume(s)

LiveSpec == LiveInit /\ [][LiveNext]_vars

-----------------------------------------------------------------------------
\* Properties.

StatusRank(status) ==
  CASE status = "initiating" -> 0 [] status = "active" -> 1 [] status = "ended" -> 2

\* The number of history records of a call.
Count(h, c) == Cardinality({i \in DOMAIN h : h[i].id = c})

\* The step starts a handler h of user u for call c.
Started(h, u, c) ==
  \E s \in Slots : /\ frames[s].h = "idle"
                   /\ frames'[s].h = h /\ frames'[s].u = u /\ frames'[s].c = c

\* The same, the service call of the handler returning res.
StartedWith(h, u, c, res) ==
  \E s \in Slots : /\ frames[s].h = "idle"
                   /\ frames'[s].h = h /\ frames'[s].u = u /\ frames'[s].c = c
                   /\ frames'[s].res = res

\* Every element of participants is connected.
ParticipantsConnected(call) ==
  \A i \in DOMAIN call.participants :
     /\ KeyOf(call.participants[i]) \in DOMAIN call.connectionStatus
     /\ call.connectionStatus[KeyOf(call.participants[i])] = "connected"

\* The members of a call: the participants and the initiator.
Members(call) == SeqToSet(call.participants) \cup {call.initiatorId}

\* The users whose connectionStatus is connected.
ConnectedUsers(call) ==
  {u \in Users : /\ KeyOf(u) \in DOMAIN call.connectionStatus
                 /\ call.connectionStatus[KeyOf(u)] = "connected"}

\* C1: the status of a call only moves forward along initiating -> active ->
\* ended: no step takes it from active to initiating, or from ended to active
\* or initiating, whatever the request (initiate, join, leave, end, disconnect,
\* signaling, recording).
C1_StatusForward ==
  [][\A c \in DOMAIN calls :
       StatusRank(calls'[c].status) >= StatusRank(calls[c].status)]_vars

\* An active call that a user has left after its activation.
C1_Witness ==
  \E c \in DOMAIN calls :
     /\ calls[c].status = "active"
     /\ \E k \in DOMAIN calls[c].connectionStatus :
           calls[c].connectionStatus[k] = "disconnected"

\* C2 as stated: a call is never active while a member, the initiator
\* included, has never joined (has no entry, or a pending one).
C2_ActiveOnlyAfterAllMembers ==
  \A c \in DOMAIN calls :
     calls[c].status = "active" =>
       \A m \in Members(calls[c]) :
          /\ KeyOf(m) \in DOMAIN calls[c].connectionStatus
          /\ calls[c].connectionStatus[KeyOf(m)] # "pending"

\* C2 amended: a call in status initiating becomes active, its startTime
\* stamped, at a successful join exactly when after that join every element of
\* participants is connected; the initiator is not counted.
C2_ActiveAtLastParticipant ==
  [][\A c \in DOMAIN calls :
       calls[c].status = "initiating" =>
         /\ calls'[c].status = "active" <=>
              /\ \E u \in Users : StartedWith("call:join", u, c, "ok")
              /\ ParticipantsConnected(calls'[c])
         /\ calls'[c].status = "active" => calls'[c].startTime = now]_vars

\* A call with two participants is active, stamped after its creation, and
\* its initiator has not joined.
C2_Witness ==
  \E c \in DOMAIN calls :
     /\ calls[c].status = "active"
     /\ Cardinality(SeqToSet(calls[c].participants)) = 2
     /\ calls[c].startTime > 0
     /\ KeyOf(calls[c].initiatorId) \notin DOMAIN calls[c].connectionStatus

\* C3: requests in sequence.  A call:end for a call that has been ended
\* changes nothing of the service and of the rooms, no call ever has two
\* history records, and a write to the history adds the one record of a call
\* that had none.
C3_EndIdempotent ==
  [][/\ \A u \in Users, c \in DOMAIN calls, ioOk \in BOOLEAN :
          (calls[c].status = "ended" /\ CallEnd(u, c, ioOk)) =>
             UNCHANGED <<calls, activeCalls, userConnections, history, files, rooms, frames>>
     /\ \A c \in DOMAIN calls' : Count(history', c) <= 1
     /\ history' # history =>
          \E c \in DOMAIN calls :
             /\ Count(history, c) = 0
             /\ history' = Append(history, HistoryRecord(calls'[c]))]_vars

\* The initiator's second call:end has been answered 'Call not found'; the
\* call has its one record.
C3_Witness ==
  \E c \in DOMAIN calls :
     /\ calls[c].status = "ended"
     /\ c \notin activeCalls
     /\ Count(history, c) = 1
     /\ AllIdle
     /\ out = {Ev(calls[c].initiatorId, "call:error", c, "Call not found")}

\* C4: handlers interleaving at their awaits.  The history never holds two
\* records of one call.
C4_OneRecordPerCall ==
  \A c \in DOMAIN calls : Count(history, c) <= 1

PermissionErrors ==
  {"Only call initiator can end the call",
   "Only call initiator can start recording",
   "Only call initiator can stop recording"}

\* C5: a call:end, call:start-recording or call:stop-recording for a live call
\* from a user who is not its initiator is answered with a permission error
\* and changes nothing: not the calls, the live map, the connections, the
\* history, the files, the rooms, nor the suspended handlers.
C5_NonInitiatorDenied ==
  [][\A u \in Users, c \in activeCalls :
       (/\ calls[c].initiatorId # u
        /\ \/ \E ioOk \in BOOLEAN : CallEnd(u, c, ioOk)
           \/ CallStartRecording(u, c)
           \/ CallStopRecording(u, c)) =>
          /\ UNCHANGED <<calls, activeCalls, userConnections, history, files, rooms, frames>>
          /\ \E msg \in PermissionErrors :
                out' = {[to |-> u, ev |-> "call:error", c |-> c, info |-> msg]}]_vars

\* A user who is not the initiator has been refused the stop of a running
\* recording.
C5_Witness ==
  \E c \in activeCalls, u \in Users :
     /\ calls[c].initiatorId # u
     /\ calls[c].recording.status = "recording"
     /\ out = {Ev(u, "call:error", c, "Only call initiator can stop recording")}

\* The calls the step creates.
Created == DOMAIN calls' \ DOMAIN calls

\* C6 as stated: the call that call:initiate creates is initiating, is in the
\* live map, and its connectionStatus maps every member, the initiator
\* included, to pending.
C6_AllMembersPending ==
  [][\A c \in Created :
       /\ calls'[c].status = "initiating"
       /\ c \in activeCalls'
       /\ \A m \in Members(calls'[c]) :
             /\ KeyOf(m) \in DOMAIN calls'[c].connectionStatus
             /\ calls'[c].connectionStatus[KeyOf(m)] = "pending"]_vars

\* C6 amended: the call that call:initiate creates is initiating, is in the
\* live map, and its connectionStatus has exactly one entry per element of
\* participants, pending; the initiator has an entry only when it is listed in
\* participants.
C6_ParticipantsPending ==
  [][\A c \in Created :
       /\ calls'[c].status = "initiating"
       /\ c \in activeCalls'
       /\ calls'[c].id = c
       /\ DOMAIN calls'[c].connectionStatus =
            {KeyOf(calls'[c].participants[i]) : i \in DOMAIN calls'[c].participants}
       /\ \A k \in DOMAIN calls'[c].connectionStatus :
             calls'[c].connectionStatus[k] = "pending"]_vars

\* Right after initiateCall: a call with two participants, its initiator
\* without an entry.
C6_Witness ==
  \E s \in Slots :
     /\ frames[s].pc = "initiate:await"
     /\ frames[s].res = "ok"
     /\ frames[s].c \in activeCalls
     /\ Len(calls[frames[s].c].participants) = 2
     /\ KeyOf(calls[frames[s].c].initiatorId) \notin DOMAIN calls[frames[s].c].connectionStatus

\* C7: no step changes the key set of a call's connectionStatus.
C7_KeySetFixed ==
  [][\A c \in DOMAIN calls :
       DOMAIN calls'[c].connectionStatus = DOMAIN calls[c].connectionStatus]_vars

\* C8: no call is created with an empty participants list or with a type
\* other than audio, video, screen_share.
C8_InvalidInitiateRejected ==
  [][\A c \in Created :
       /\ calls'[c].participants # <<>>
       /\ calls'[c].type \in KnownTypes]_vars

\* C9: a call:join or a webrtc:signal for a live call from a user who is
\* neither a participant nor the initiator fails as not invited and changes
\* no call; nothing is forwarded.
C9_UninvitedRejected ==
  [][\A u \in Users, c \in activeCalls :
       (/\ u \notin Members(calls[c])
        /\ \/ Started("call:join", u, c)
           \/ Started("webrtc:signal", u, c)) =>
          /\ calls' = calls
          /\ \E s \in Slots : /\ frames'[s] # frames[s]
                              /\ frames'[s].res = "User not invited to this call"]_vars

\* C10: a leave of a live call marks the user disconnected, and the call is
\* ended by the leave exactly when the users left connected are none, or the
\* initiator alone.
C10_LeaveEndsWhenAloneOrEmpty ==
  [][\A u \in Users, c \in activeCalls :
       (Started("call:leave", u, c) /\ calls[c].status # "ended") =>
          /\ calls'[c].connectionStatus[KeyOf(u)] = "disconnected"
          /\ calls'[c].status = "ended" <=>
               \/ ConnectedUsers(calls'[c]) = {}
               \/ ConnectedUsers(calls'[c]) = {calls[c].initiatorId}
          /\ calls'[c].status # "ended" => calls'[c].status = calls[c].status]_vars

\* C11: a call that ends while its recording runs has the recording
\* finalized: no history record carries a recording whose status is recording.
C11_HistoryRecordingFinalized ==
  \A i \in DOMAIN history : history[i].recording.status # "recording"

\* C12: a call whose status is ended is not in the live map and has a record
\* in the history; every call in the live map is initiating or active.
C12_EndedLeftRegistry ==
  \A c \in DOMAIN calls :
     /\ calls[c].status = "ended" => (c \notin activeCalls /\ Count(history, c) >= 1)
     /\ c \in activeCalls => calls[c].status \in {"initiating", "active"}

\* The requests that C13 is about.
SessionRequests ==
  {"call:join", "call:leave", "webrtc:signal", "call:start-recording",
   "call:recording-chunk", "call:stop-recording"}

\* C13: once a call has status ended, a join, leave, signal, start-recording,
\* recording-chunk or stop-recording for it fails with an error and leaves its
\* connectionStatus, its recording, its messages and the history unchanged.
C13_EndedRejectsRequests ==
  [][\A c \in DOMAIN calls, u \in Users, h \in SessionRequests :
       (calls[c].status = "ended" /\ Started(h, u, c)) =>
          /\ ~StartedWith(h, u, c, "ok")
          /\ calls'[c].connectionStatus = calls[c].connectionStatus
          /\ calls'[c].recording = calls[c].recording
          /\ calls'[c].messages = calls[c].messages
          /\ history' = history]_vars

\* The users the step delivers a webrtc:signal event to.
Recipients == {e.to : e \in {x \in out' : x.ev = "webrtc:signal"}}

\* The step forwards the signal of the suspended handler s.
Forwards(s) == frames[s].pc = "signal:await" /\ frames[s].res = "ok" /\ SignalResume(s)

\* C14 as stated: a forwarded signal goes to the target alone when a target is
\* given, and else to exactly the users other than the sender whose
\* connectionStatus is connected.
C14_BroadcastToConnected ==
  [][\A s \in Slots :
       Forwards(s) =>
          /\ frames[s].u \notin Recipients
          /\ IF frames[s].target # NoTarget
               THEN Recipients \subseteq {frames[s].target}
               ELSE Recipients = ConnectedUsers(calls[frames[s].c]) \ {frames[s].u}]_vars

\* The users whose socket is in the room of the call, told from the call: the
\* connected ones, and the initiator until it leaves.
InCallRoom(call) ==
  ConnectedUsers(call) \cup
    {m \in {call.initiatorId} :
        KeyOf(m) \in DOMAIN call.connectionStatus => call.connectionStatus[KeyOf(m)] # "disconnected"}

\* C14 amended: a forwarded signal goes to the target alone when a target is
\* given, never to the sender; without a target it goes to exactly the other
\* sockets of the call's room: the users who are connected, and the initiator
\* from the creation of the call until it leaves, joined or not.  A pending
\* or disconnected participant gets nothing.
C14_BroadcastToRoom ==
  [][\A s \in Slots :
       Forwards(s) =>
          /\ frames[s].u \notin Recipients
          /\ IF frames[s].target # NoTarget
               THEN Recipients = ({frames[s].target} \cap online) \ {frames[s].u}
               ELSE /\ Recipients = rooms[frames[s].c] \ {frames[s].u}
                    /\ Recipients = InCallRoom(calls[frames[s].c]) \ {frames[s].u}]_vars

\* A broadcast from a participant has reached the initiator, who has not
\* joined, and another connected participant, but not the sender.
C14_Witness ==
  \E c \in activeCalls :
     /\ KeyOf(calls[c].initiatorId) \notin DOMAIN calls[c].connectionStatus
     /\ ConnectedUsers(calls[c]) = {2, 3}
     /\ out = {Ev(calls[c].initiatorId, "webrtc:signal", c, "forward"),
               Ev(3, "webrtc:signal", c, "forward")}

\* s1 is a prefix of s2.
IsPrefix(s1, s2) == Len(s1) <= Len(s2) /\ SubSeq(s2, 1, Len(s1)) = s1

\* C15: the messages of a call are append-only and in the order of handling:
\* no step removes or reorders an entry, a webrtc:signal that is handled puts
\* its message at the end, and of two messages of one sender in one call the
\* one handled first is forwarded first, however the handlers interleave.
C15_LogAndForwardInOrder ==
  [][/\ \A c \in DOMAIN calls : IsPrefix(calls[c].messages, calls'[c].messages)
     /\ \A c \in DOMAIN calls, u \in Users :
          StartedWith("webrtc:signal", u, c, "ok") =>
             /\ Len(calls'[c].messages) = Len(calls[c].messages) + 1
             /\ calls'[c].messages[Len(calls'[c].messages)].userId = u
     /\ \A s \in Slots :
          Forwards(s) =>
             \A t \in Slots \ {s} :
                (/\ frames[t].pc = "signal:await" /\ frames[t].res = "ok"
                 /\ frames[t].u = frames[s].u /\ frames[t].c = frames[s].c) =>
                   frames[s].msg < frames[t].msg]_vars

\* Two signals of one sender are in the log, the first has been forwarded and
\* the second waits.
C15_Witness ==
  \E c \in activeCalls, s \in Slots :
     /\ Len(calls[c].messages) = 2
     /\ calls[c].messages[1].userId = calls[c].messages[2].userId
     /\ frames[s].pc = "signal:await" /\ frames[s].msg = 2
     /\ frames[s].u = calls[c].messages[2].userId
     /\ \E e \in out : e.ev = "webrtc:signal" /\ e.c = c

\* C16: an ended call has duration = endTime - startTime, the startTime being
\* the one the call holds when it is ended and the endTime the time of the
\* end; a call that is not ended has duration 0 and no endTime.
C16_DurationExact ==
  [][\A c \in DOMAIN calls' :
       IF calls'[c].status = "ended"
         THEN /\ calls'[c].endTime # NullTime
              /\ calls'[c].duration = calls'[c].endTime - calls'[c].startTime
              /\ (c \in DOMAIN calls /\ calls[c].status # "ended") =>
                    /\ calls'[c].startTime = calls[c].startTime
                    /\ calls'[c].endTime = now
         ELSE calls'[c].duration = 0 /\ calls'[c].endTime = NullTime]_vars

\* A call that became active after its creation and was ended later: its
\* duration counts from the activation.
C16_Witness ==
  \E c \in DOMAIN calls :
     /\ calls[c].status = "ended"
     /\ calls[c].startTime = 1
     /\ calls[c].endTime = 2
     /\ calls[c].duration = 1

\* C17: a start-recording for a call whose recording has status recording
\* fails with the already-recording error and leaves the recording as it is
\* (id and path, startTime, status, size), the files too; the call has the
\* one recording it had.
C17_StartWhileRecordingFails ==
  [][\A c \in activeCalls, u \in Users :
       (calls[c].recording.status = "recording" /\ Started("call:start-recording", u, c)) =>
          /\ StartedWith("call:start-recording", u, c, "Call is already being recorded")
          /\ calls'[c].recording = calls[c].recording
          /\ calls' = calls
          /\ files' = files]_vars

\* A second start has been refused after the clock advanced: the recording
\* still has the id of the first start.
C17_Witness ==
  \E c \in activeCalls, s \in Slots :
     /\ frames[s].h = "call:start-recording" /\ frames[s].c = c
     /\ frames[s].res = "Call is already being recorded"
     /\ calls[c].recording.status = "recording"
     /\ calls[c].recording.startTime < now

\* C18: a recording-chunk or a stop-recording for a live call that has no
\* recording, or whose recording is not in status recording, fails with the
\* no-active-recording error and changes neither the recording (status,
\* endTime, size) nor the bytes on disk.
C18_NoActiveRecordingFails ==
  [][\A c \in activeCalls, u \in Users :
       calls[c].recording.status # "recording" =>
          /\ Started("call:stop-recording", u, c) =>
                /\ StartedWith("call:stop-recording", u, c, "No active recording found")
                /\ calls' = calls /\ files' = files
          /\ Started("call:recording-chunk", u, c) =>
                /\ StartedWith("call:recording-chunk", u, c, "No active recording")
                /\ calls' = calls /\ files' = files]_vars

\* A chunk has been refused for a recording that was stopped with bytes on
\* disk.
C18_Witness ==
  \E c \in activeCalls, s \in Slots :
     /\ frames[s].h = "call:recording-chunk" /\ frames[s].c = c
     /\ frames[s].res = "No active recording"
     /\ calls[c].recording.status = "completed"
     /\ calls[c].recording.size > 0
     /\ files[calls[c].recording.id] = calls[c].recording.size

\* The bytes on disk under a recording id.
StoreSize(fs, id) == IF id \in DOMAIN fs THEN fs[id] ELSE 0

\* C19: a recording that is started, fed the chunks b1 .. bk and stopped is
\* completed with size len(b1) + ... + len(bk).  Step by step: a started
\* recording has no bytes yet, a chunk that succeeds adds its length to the
\* bytes of the recording, and the stop completes the recording with the
\* bytes it has as its size.
C19_SizeIsSumOfChunks ==
  [][\A c \in activeCalls, u \in Users :
       /\ StartedWith("call:start-recording", u, c, "ok") =>
             /\ calls'[c].recording.status = "recording"
             /\ StoreSize(files', calls'[c].recording.id) = 0
       /\ StartedWith("call:recording-chunk", u, c, "ok") =>
             /\ calls' = calls
             /\ \E len \in ChunkLens :
                   StoreSize(files', calls[c].recording.id) =
                     StoreSize(files, calls[c].recording.id) + len
       /\ StartedWith("call:stop-recording", u, c, "ok") =>
             /\ calls'[c].recording.status = "completed"
             /\ calls'[c].recording.size = StoreSize(files, calls[c].recording.id)]_vars

\* The last n elements of a sequence, all of them when it has fewer.
LastOf(h, n) == IF Len(h) > n THEN SubSeq(h, Len(h) - n + 1, Len(h)) ELSE h

\* C20: the history never holds more than 100 records, and a write that
\* appends a record leaves the most recent records, 100 at most, in the order
\* they were appended: what is dropped is the oldest record, and only once
\* the 100 are exceeded.
C20_HistoryKeepsLast100 ==
  [][/\ Len(history') <= 100
     /\ \A u \in Users :
          SaveCallToHistory(EndedCallOf(u), TRUE) =>
             /\ Len(history') = (IF Len(history) + 1 < 100 THEN Len(history) + 1 ELSE 100)
             /\ history'[Len(history')].initiatorId = u
             /\ history'[Len(history')].endTime = now'
             /\ history' = LastOf(Append(history, history'[Len(history')]), 100)
             /\ \A i \in 1 .. Len(history') - 1 :
                   history'[i] = history[i + (Len(history) + 1 - Len(history'))]
     /\ history' # history => \E u \in Users : SaveCallToHistory(EndedCallOf(u), TRUE)]_vars

\* Two records were appended to a full history: the two oldest are gone, the
\* third oldest is first, the new ones are last in the order of their writes.
C20_Witness ==
  /\ Len(history) = 100
  /\ history[1] = PastRecord(3)
  /\ history[98] = PastRecord(100)
  /\ history[99].id = 1 /\ history[99].endTime = 1
  /\ history[100].id = 1 /\ history[100].endTime = 2

\* The records of the history that are calls of user u, the most recent first.
RecentFirst(h, u) == Reverse(SelectSeq(h, LAMBDA r : IsCallOf(r, u)))

\* C21: the answer to calls:get-history is made of records in which the user
\* is the initiator or a participant, the most recent first, and has no more
\* than limit records (none for a limit below 1), whatever the limit that is
\* sent: it is the limit most recent records of the user when there are more
\* than limit.
C21_HistoryQueryCapped ==
  [][\A u \in Users, limit \in LimitInputs, s \in Slots :
       (CallsGetHistory(u, limit) /\ frames[s].h = "idle" /\ frames'[s].h = "calls:get-history") =>
          LET answer == frames'[s].val
              mine == RecentFirst(history, u)
              most == IF limit < 0 THEN 0 ELSE limit
          IN  /\ Len(answer) <= most
              /\ Len(answer) <= Len(mine)
              /\ answer = SubSeq(mine, 1, Len(answer))
              /\ Len(mine) > most => Len(answer) = most]_vars

\* The step appends a record to the history, the oldest leaving beyond 100.
AppendsRecord ==
  /\ Len(history') >= 1
  /\ history' = LastOf(Append(history, history'[Len(history')]), 100)

\* C22 as stated: a history record is never changed once written: a step
\* leaves the history as it is, or appends a record and evicts the oldest.
C22_RecordsImmutable ==
  [][history' = history \/ AppendsRecord]_vars

\* C22 amended: a history record is changed by deleteRecording alone, and in
\* its recording alone: the first record of the call has its recording set
\* to null, all its other fields and all other records stay; every other
\* step leaves the history as it is, or appends a record and evicts the
\* oldest.
C22_OnlyDeleteClearsRecording ==
  [][\/ history' = history
     \/ AppendsRecord
     \/ \E s \in Slots :
          /\ frames[s].pc = "delete:await" /\ frames[s].res = "ok" /\ frames'[s] = IdleFrame
          /\ Len(history') = Len(history)
          /\ \E i \in DOMAIN history :
                /\ history[i].id = frames[s].c
                /\ \A j \in 1 .. i - 1 : history[j].id # frames[s].c
                /\ history' = [history EXCEPT ![i].recording = NoRecording]]_vars

\* The recording of an ended call was deleted: the record of the call has no
\* recording any more, the call had a completed one with bytes on disk, and
\* the file is gone.
C22_Witness ==
  \E i \in DOMAIN history :
     /\ history[i].recording = NoRecording
     /\ history[i].status = "ended"
     /\ calls[history[i].id].recording.status = "completed"
     /\ calls[history[i].id].recording.size > 0
     /\ calls[history[i].id].recording.id \notin DOMAIN files

\* C23: a write that fails is reported and corrupts nothing.  A
\* recording-chunk whose write fails gets a failure and leaves the call and
\* the files as they were; a call:end, or a call:leave that ends the call,
\* whose history write fails gets a failure; and no call is ever out of the
\* live map without a record in the history.
C23_WriteFailureReported ==
  [][/\ \A u \in Users, c \in activeCalls, len \in ChunkLens :
          (calls[c].recording.status = "recording" /\ CallRecordingChunk(u, c, len, FALSE)) =>
             /\ ~StartedWith("call:recording-chunk", u, c, "ok")
             /\ calls' = calls
             /\ files' = files
     /\ \A u \in Users, c \in activeCalls :
          /\ (calls[c].initiatorId = u /\ CallEnd(u, c, FALSE)) =>
                ~StartedWith("call:end", u, c, "ok")
          /\ (LeaveEnds(u, c) /\ CallLeave(u, c, FALSE)) =>
                ~StartedWith("call:leave", u, c, "ok")
     /\ \A c \in DOMAIN calls' : c \in activeCalls' \/ Count(history', c) >= 1]_vars

\* C24: the sender of a webrtc:signal for a live call is told the outcome of
\* the delivery: the continuation of the handler emits an event to the
\* sender, an acknowledgement or a delivery failure, and the message is in
\* the log whether or not the target could be reached.
C24_SenderGetsDeliveryStatus ==
  [][\A s \in Slots :
       Forwards(s) =>
          /\ \E e \in out' : e.to = frames[s].u
          /\ frames[s].msg \in DOMAIN calls[frames[s].c].messages]_vars

\* C25: a request for a live call X leaves every other live call Y as it is
\* (status, connectionStatus, recording, messages), and leaves the
\* userConnections entry of every user who is connected in Y as it is.
C25_CallsShareNothing ==
  [][\A x \in activeCalls, y \in activeCalls, u \in Users, h \in SessionRequests \cup {"call:end"} :
       (x # y /\ Started(h, u, x)) =>
          /\ calls'[y] = calls[y]
          /\ \A v \in ConnectedUsers(calls[y]) :
                /\ v \in DOMAIN userConnections <=> v \in DOMAIN userConnections'
                /\ v \in DOMAIN userConnections => userConnections'[v] = userConnections[v]]_vars

\* C26: a call:leave from a user who is neither a participant nor the
\* initiator of the live call changes neither its status nor its
\* connectionStatus, writes no history record, and neither the handler nor
\* its continuation takes the call out of the live map.
C26_OutsiderLeaveHarmless ==
  [][/\ \A u \in Users, c \in activeCalls :
          (u \notin Members(calls[c]) /\ Started("call:leave", u, c)) =>
             /\ calls'[c].status = calls[c].status
             /\ calls'[c].connectionStatus = calls[c].connectionStatus
             /\ history' = history
             /\ c \in activeCalls'
     /\ \A s \in Slots :
          (/\ frames[s].h = "call:leave" /\ frames'[s] # frames[s]
           /\ frames[s].c \in DOMAIN calls
           /\ frames[s].u \notin Members(calls[frames[s].c])) =>
             activeCalls' = activeCalls]_vars

\* The step is the disconnect of the socket of user u.
Disconnects(u) == u \in online /\ online' = online \ {u}

\* C27: the disconnect of a user leaves as they are the calls in which the
\* user is not connected, those the user is invited to and has not joined
\* among them: their status and connectionStatus stay, they are not ended and
\* no history record is written for them.
C27_DisconnectSparesUnjoined ==
  [][\A u \in Users, c \in activeCalls :
       (Disconnects(u) /\ u \notin ConnectedUsers(calls[c])) =>
          /\ calls'[c] = calls[c]
          /\ Count(history', c) = Count(history, c)]_vars

\* C28: a forwarded signal reaches members of the call only: the
\* participants and the initiator.
C28_SignalStaysInCall ==
  [][\A s \in Slots :
       Forwards(s) => Recipients \subseteq Members(calls[frames[s].c])]_vars

\* A call:ended event of call c is delivered.
Announced(c) == \E e \in out : e.ev = "call:ended" /\ e.c = c

\* C29: every end of a call is announced: when a call gets status ended, by
\* a call:end or by the end inside a leave or a disconnect, a call:ended event
\* is emitted to the room of the call in the end.
C29_EveryEndAnnounced ==
  \A c \in CallIds :
     (<>(c \in DOMAIN calls /\ calls[c].status = "ended")) => <>Announced(c)

\* Every member of the call is marked disconnected.
AllGone(call) ==
  \A m \in Members(call) :
     /\ KeyOf(m) \in DOMAIN call.connectionStatus
     /\ call.connectionStatus[KeyOf(m)] = "disconnected"

====
